---- MODULE Spec2Model ----
(***************************************************************************)
(* ELISA Manager (src/elisa_gui.py): the 8 x 12 plate form, the category   *)
(* assignment handlers, the normalization / classification of              *)
(* calculate_results and the sqlite tables plates / wells.                  *)
(*                                                                         *)
(* Conventions of the model                                                *)
(*  - a Python str that the code inspects character by character (a well   *)
(*    address, the text of a category entry) is a sequence of characters,  *)
(*    each character a one-element string; "U+0661" stands for the single  *)
(*    character ARABIC-INDIC DIGIT ONE;                                    *)
(*  - the other texts (cell values, plate name, serum, multiplier) are     *)
(*    strings, converted by the tables below;                              *)
(*  - a float is an exact rational [n, d] in lowest terms, d > 0; the     *)
(*    record NaN (d = 0) is pandas' NaN / Python's None / SQL NULL of a   *)
(*    REAL column.  Rounding of binary floating point is not modelled;    *)
(*  - the sample-name cells (name_cells) and the Excel / Google sinks do   *)
(*    not influence any modelled field and are left out.                  *)
(***************************************************************************)
EXTENDS Integers, Sequences, FiniteSets, TLC

\* ------------------------------------------------------------------ bounds
\* number of wells (in row-major order from A1) the user types into or selects
MaxWells == 2
\* the values on a filled form are the decimal texts "0" .. MaxValue
MaxValue == 2
\* multiplier texts typed by the user are "0" .. MaxMult (and a non-number)
MaxMult == 2
\* number of handler invocations in one run of the form
MaxOps == 4
\* length of the strings handed to well_to_rc
MaxLen == 3

\* ------------------------------------------------------- program constants
NumRows == 8
NumCols == 12

Grid == (0 .. NumRows - 1) \X (0 .. NumCols - 1)

\* row-major position of a cell, 1 .. 96, the order of collect_data's loops
CellIndex(rc) == rc[1] * NumCols + rc[2] + 1

CellAt(i) == << (i - 1) \div NumCols, (i - 1) % NumCols >>

\* ------------------------------------------------------------- characters
UpperLetters == << "A", "B", "C", "D", "E", "F", "G", "H", "I" >>

LowerLetters == << "a", "b", "c", "d", "e", "f", "g", "h", "i" >>

AsciiDigits == << "0", "1", "2", "3", "4", "5", "6", "7", "8", "9" >>

Separators == { " ", ",", "\n", "\t" }

\* str.upper() of one character
UpperChar(ch) ==
    IF \E i \in 1 .. Len(LowerLetters) : LowerLetters[i] = ch
    THEN UpperLetters[CHOOSE i \in 1 .. Len(LowerLetters) : LowerLetters[i] = ch]
    ELSE ch

Upper(s) == [ i \in 1 .. Len(s) |-> UpperChar(s[i]) ]

\* ord(ch) - 65 for the letters the model knows
LetterIndex(ch) == (CHOOSE i \in 1 .. Len(UpperLetters) : UpperLetters[i] = ch) - 1

\* the regular expression class \d of a str pattern: every Unicode decimal digit
IsDigit(ch) == (\E i \in 1 .. 10 : AsciiDigits[i] = ch) \/ ch = "U+0661"

\* int() of one decimal digit
DigitValue(ch) ==
    IF ch = "U+0661" THEN 1
    ELSE (CHOOSE i \in 1 .. 10 : AsciiDigits[i] = ch) - 1

RECURSIVE IntOf(_)
IntOf(s) ==
    IF Len(s) = 0 THEN 0
    ELSE 10 * IntOf(SubSeq(s, 1, Len(s) - 1)) + DigitValue(s[Len(s)])

\* str(n) for n >= 0
RECURSIVE StrOfNat(_)
StrOfNat(n) ==
    IF n < 10 THEN << AsciiDigits[n + 1] >>
    ELSE StrOfNat(n \div 10) \o << AsciiDigits[(n % 10) + 1] >>

\* ------------------------------------------------------------ well_to_rc
NoRC == << >>

\* re.match(r'^([A-H])(\d{1,2})$', s): '$' also matches just before one
\* newline that ends the string
RegexStem(s) ==
    IF Len(s) > 0 /\ s[Len(s)] = "\n" THEN SubSeq(s, 1, Len(s) - 1) ELSE s

RegexMatches(s) ==
    LET t == RegexStem(s)
    IN  /\ Len(t) \in { 2, 3 }
        /\ \E i \in 1 .. 8 : UpperLetters[i] = t[1]
        /\ \A i \in 2 .. Len(t) : IsDigit(t[i])

well_to_rc(well) ==
    LET u == Upper(well)
        t == RegexStem(u)
        r == LetterIndex(t[1])
        c == IntOf(SubSeq(t, 2, Len(t))) - 1
    IN  IF ~ RegexMatches(u) THEN NoRC
        ELSE IF 0 <= r /\ r < NumRows /\ 0 <= c /\ c < NumCols THEN << r, c >>
        ELSE NoRC

\* f"{chr(65+r)}{c+1}" of collect_data
FormatWell(rc) == << UpperLetters[rc[1] + 1] >> \o StrOfNat(rc[2] + 1)

\* parse_wells: split on runs of whitespace and commas, drop empty tokens,
\* upper-case, as a set
parse_wells(text) ==
    { Upper(SubSeq(text, i, j)) :
        << i, j >> \in { p \in (1 .. Len(text)) \X (1 .. Len(text)) :
            /\ p[1] <= p[2]
            /\ \A k \in p[1] .. p[2] : text[k] \notin Separators
            /\ (p[1] = 1 \/ text[p[1] - 1] \in Separators)
            /\ (p[2] = Len(text) \/ text[p[2] + 1] \in Separators) } }

\* the cells a typed list names: the tokens well_to_rc accepts
NamedCells(text) == { well_to_rc(w) : w \in parse_wells(text) } \ { NoRC }

\* ------------------------------------------------------------- numbers
NaN == [ n |-> 0, d |-> 0 ]

IsNum(x) == x.d # 0

Abs(i) == IF i < 0 THEN - i ELSE i

RECURSIVE GCD(_, _)
GCD(a, b) == IF b = 0 THEN a ELSE GCD(b, a % b)

\* the rational n / d (d # 0) in lowest terms with a positive denominator
Rat(n, d) ==
    LET g == GCD(Abs(n), Abs(d))
        s == IF d < 0 THEN -1 ELSE 1
    IN  [ n |-> (s * n) \div g, d |-> (s * d) \div g ]

Whole(i) == [ n |-> i, d |-> 1 ]

\* float arithmetic: NaN is contagious
RatAdd(x, y) ==
    IF IsNum(x) /\ IsNum(y) THEN Rat(x.n * y.d + y.n * x.d, x.d * y.d) ELSE NaN

RatSub(x, y) ==
    IF IsNum(x) /\ IsNum(y) THEN Rat(x.n * y.d - y.n * x.d, x.d * y.d) ELSE NaN

RatMul(x, y) ==
    IF IsNum(x) /\ IsNum(y) THEN Rat(x.n * y.n, x.d * y.d) ELSE NaN

RatDivInt(x, k) == IF IsNum(x) /\ k # 0 THEN Rat(x.n, x.d * k) ELSE NaN

\* x > y of two floats: False as soon as one of them is NaN
RatGT(x, y) == IsNum(x) /\ IsNum(y) /\ x.n * y.d > y.n * x.d

\* Series.dropna(): the numbers of a sequence of floats, in order
DropNa(xs) == SelectSeq(xs, IsNum)

RECURSIVE SumSeq(_)
SumSeq(xs) == IF Len(xs) = 0 THEN Whole(0) ELSE RatAdd(xs[1], SumSeq(Tail(xs)))

\* Series.mean() of a non-empty sequence of numbers
Mean(xs) == RatDivInt(SumSeq(xs), Len(xs))

\* the square of Series.std() (ddof = 1): NaN for fewer than two numbers
SampleVariance(xs) ==
    IF Len(xs) < 2 THEN NaN
    ELSE LET m == Mean(xs)
             sq == [ i \in 1 .. Len(xs) |-> RatMul(RatSub(xs[i], m), RatSub(xs[i], m)) ]
         IN  RatDivInt(SumSeq(sq), Len(xs) - 1)

\* float(text) of the texts the form can hold; a ValueError is NaN here and
\* the caller's except branch decides what replaces it
DecimalTexts == << "0", "1", "2", "3", "4", "5", "6", "7", "8", "9" >>

\* str(x) of the floats 0.0 .. 9.0, the texts fetch puts into the value cells
FloatTexts == [ i \in 1 .. 10 |-> DecimalTexts[i] \o ".0" ]

ParseFloat(text) ==
    IF \E i \in 1 .. 10 : DecimalTexts[i] = text
    THEN Whole((CHOOSE i \in 1 .. 10 : DecimalTexts[i] = text) - 1)
    ELSE IF \E i \in 1 .. 10 : FloatTexts[i] = text
    THEN Whole((CHOOSE i \in 1 .. 10 : FloatTexts[i] = text) - 1)
    ELSE NaN

\* str(x) of a float a stored row can hold; str(float('nan')) is 'nan',
\* which float() reads back as NaN
StrOfFloat(x) == IF IsNum(x) /\ x.d = 1 /\ x.n \in 0 .. 9 THEN FloatTexts[x.n + 1] ELSE "nan"

\* ------------------------------------------------------------ the state
VARIABLES
    value_cells,       \* App.value_cells: the text of each of the 96 value entries
    categories,        \* App.categories: dict cell -> category
    serums,            \* App.serums: dict cell -> serum label
    selected,          \* App.selected: set of cells
    cat_entries,       \* App.cat_entries: the text of the four category entries
    entry_serum,       \* App.entry_serum
    entry_plate,       \* App.entry_plate
    var_method,        \* App.var_method
    entry_multiplier,  \* App.entry_multiplier
    plates,            \* table plates: the name of each row, row id = position
    wells,             \* table wells: its rows in insertion order
    text_output,       \* App.text_output: the rows of the table it shows
    message,           \* title of the message box shown by the last save / calculation
    lastOp,            \* the handler that ran last
    nops,              \* number of handler invocations so far
    last_assigned,     \* history: cell -> category of the user's latest assignment naming it
    well_arg,          \* argument of a direct call of well_to_rc
    well_rc            \* what that call returned

vars == << value_cells, categories, serums, selected, cat_entries, entry_serum,
           entry_plate, var_method, entry_multiplier, plates, wells, text_output,
           message, lastOp, nops, last_assigned, well_arg, well_rc >>

formVars == << value_cells, categories, serums, selected, cat_entries, entry_serum,
               entry_plate, var_method, entry_multiplier >>

dbVars == << plates, wells >>

parseVars == << well_arg, well_rc >>

\* the categories, in the order of the dict cat_entries (the list labels)
CatOrder == << "K+", "K- healthy", "K- buffer", "substrate blank" >>

Cats == { CatOrder[i] : i \in 1 .. Len(CatOrder) }

Methods == { "SD", "Multiple" }

NotCalled == << "not called" >>

\* --------------------------------------------- what the user may type
EditWells == { rc \in Grid : CellIndex(rc) <= MaxWells }

ValueTexts == { "", "abc", "1", "2" }

MultTexts == { "abc" } \cup { DecimalTexts[i + 1] : i \in 0 .. MaxMult }

PlateNames == { "", "P" }

SerumTexts == { "", "s1" }

EntryTexts == { << >>, << "a", "1" >>, << "A", "1", ",", " ", "A", "2" >> }

\* ---------------------------------------------------------- dict helpers
EmptyDict == [ rc \in {} |-> "" ]

\* dict.get(rc, '')
Get(dict, rc) == IF rc \in DOMAIN dict THEN dict[rc] ELSE ""

\* the dict replaced by the new keys instead of updated
SetAllOnly(dict, rcs, v) == [ rc \in rcs |-> v ]

\* dict[rc] = v for every rc of rcs
SetAll(dict, rcs, v) ==
    [ rc \in (DOMAIN dict) \cup rcs |-> IF rc \in rcs THEN v ELSE dict[rc] ]

\* ------------------------------------------------------------- Init
InitForm ==
    /\ value_cells = [ rc \in Grid |-> "" ]
    /\ categories = EmptyDict
    /\ serums = EmptyDict
    /\ selected = {}
    /\ cat_entries = [ cat \in Cats |-> << >> ]
    /\ entry_serum = ""
    /\ entry_plate = ""
    /\ var_method = "SD"
    /\ entry_multiplier = "3"
    /\ text_output = << >>

InitRest ==
    /\ last_assigned = EmptyDict
    /\ plates = << >>
    /\ wells = << >>
    /\ message = ""
    /\ lastOp = "__init__"
    /\ nops = 0
    /\ well_arg = << >>
    /\ well_rc = NotCalled

Init == InitForm /\ InitRest

\* every handler invocation is counted; the form stops taking input at MaxOps
Count(op) ==
    /\ nops < MaxOps
    /\ nops' = nops + 1
    /\ lastOp' = op
    /\ UNCHANGED parseVars

\* a handler or an edit that is no assignment by the user
Step(op) == Count(op) /\ UNCHANGED last_assigned

\* ------------------------------------------------- typing into the widgets
EditValue(rc, text) ==
    /\ Step("edit")
    /\ value_cells' = [ value_cells EXCEPT ![rc] = text ]
    /\ UNCHANGED << categories, serums, selected, cat_entries, entry_serum, entry_plate,
                    var_method, entry_multiplier, plates, wells, text_output, message >>

\* typing a list of wells into the entry of a category: the user assigns
\* these wells to it (the handlers apply the list later); of a well taken
\* off the list the latest assignment is no longer known
SetCatEntry(cat, text) ==
    /\ Count("edit")
    /\ last_assigned' =
          LET kept == [ rc \in (DOMAIN last_assigned) \ NamedCells(cat_entries[cat]) |->
                          last_assigned[rc] ]
          IN  SetAll(kept, NamedCells(text), cat)
    /\ cat_entries' = [ cat_entries EXCEPT ![cat] = text ]
    /\ UNCHANGED << value_cells, categories, serums, selected, entry_serum, entry_plate,
                    var_method, entry_multiplier, plates, wells, text_output, message >>

SetSerum(text) ==
    /\ Step("edit")
    /\ entry_serum' = text
    /\ UNCHANGED << value_cells, categories, serums, selected, cat_entries, entry_plate,
                    var_method, entry_multiplier, plates, wells, text_output, message >>

SetPlate(text) ==
    /\ Step("edit")
    /\ entry_plate' = text
    /\ UNCHANGED << value_cells, categories, serums, selected, cat_entries, entry_serum,
                    var_method, entry_multiplier, plates, wells, text_output, message >>

SetMethod(m) ==
    /\ Step("edit")
    /\ var_method' = m
    /\ UNCHANGED << value_cells, categories, serums, selected, cat_entries, entry_serum,
                    entry_plate, entry_multiplier, plates, wells, text_output, message >>

SetMultiplier(text) ==
    /\ Step("edit")
    /\ entry_multiplier' = text
    /\ UNCHANGED << value_cells, categories, serums, selected, cat_entries, entry_serum,
                    entry_plate, var_method, plates, wells, text_output, message >>

\* ------------------------------------------------ selection and categories
toggle_select(rc) ==
    /\ Step("toggle_select")
    /\ selected' = IF rc \in selected THEN selected \ { rc } ELSE selected \cup { rc }
    /\ UNCHANGED << value_cells, categories, serums, cat_entries, entry_serum, entry_plate,
                    var_method, entry_multiplier, plates, wells, text_output, message >>

\* the cells assign_selected(cat) writes: the selection, then cat's typed list
AssignedCells(cat) == selected \cup NamedCells(cat_entries[cat])

assign_selected(cat) ==
    /\ Count("assign_selected")
    /\ last_assigned' = SetAll(last_assigned, AssignedCells(cat), cat)
    /\ categories' = SetAll(categories, AssignedCells(cat), cat)
    /\ serums' = IF entry_serum # ""
                 THEN SetAll(serums, AssignedCells(cat), entry_serum)
                 ELSE serums
    /\ selected' = {}
    /\ UNCHANGED << value_cells, cat_entries, entry_serum, entry_plate, var_method,
                    entry_multiplier, plates, wells, text_output, message >>

\* the cells taken off the selection losing their category as well
clear_selection_and_categories ==
    /\ Step("clear_selection")
    /\ selected' = {}
    /\ serums' = [ rc \in (DOMAIN serums) \ selected |-> serums[rc] ]
    /\ categories' = [ rc \in (DOMAIN categories) \ selected |-> categories[rc] ]
    /\ UNCHANGED << value_cells, cat_entries, entry_serum, entry_plate,
                    var_method, entry_multiplier, plates, wells, text_output, message >>

clear_selection ==
    /\ Step("clear_selection")
    /\ selected' = {}
    /\ serums' = [ rc \in (DOMAIN serums) \ selected |-> serums[rc] ]
    /\ UNCHANGED << value_cells, categories, cat_entries, entry_serum, entry_plate,
                    var_method, entry_multiplier, plates, wells, text_output, message >>

\* assign_from_entries: the four typed lists in dict order, later lists
\* overwriting earlier ones
RECURSIVE EntriesCategories(_, _)
EntriesCategories(i, cats) ==
    IF i > Len(CatOrder) THEN cats
    ELSE EntriesCategories(i + 1,
            SetAll(cats, NamedCells(cat_entries[CatOrder[i]]), CatOrder[i]))

EntriesNamed == UNION { NamedCells(cat_entries[cat]) : cat \in Cats }

EntriesSerums(sers) ==
    IF entry_serum # "" THEN SetAll(sers, EntriesNamed, entry_serum) ELSE sers

\* ------------------------------------------------------------ collect_data
\* the well strings of collect_data's loops, in loop order
WellNames == [ i \in 1 .. NumRows * NumCols |-> FormatWell(CellAt(i)) ]

\* the 96 dicts of collect_data, in loop order, for given dicts
CollectRows(cats, sers) ==
    [ i \in 1 .. NumRows * NumCols |->
        [ well |-> WellNames[i],
          value |-> ParseFloat(value_cells[CellAt(i)]),
          category |-> Get(cats, CellAt(i)),
          serum |-> Get(sers, CellAt(i)) ] ]

\* --------------------------------------------------------- save_plate_data
\* SQL NULL of a TEXT column
Null == "NULL"

\* INSERT INTO wells (plate_id, well, sample, value, category, serum)
InsertedRows(pid, rows) ==
    [ i \in 1 .. Len(rows) |->
        [ plate_id |-> pid,
          well |-> rows[i].well,
          value |-> rows[i].value,
          category |-> rows[i].category,
          serum |-> rows[i].serum,
          normalized |-> NaN,
          result |-> Null ] ]

save ==
    /\ Step("save")
    /\ categories' = EntriesCategories(1, categories)
    /\ serums' = EntriesSerums(serums)
    /\ IF entry_plate = ""
       THEN /\ message' = "Plate"
            /\ UNCHANGED dbVars
       ELSE /\ plates' = Append(plates, entry_plate)
            /\ wells' = wells \o InsertedRows(Len(plates) + 1,
                                              CollectRows(categories', serums'))
            /\ message' = "Saved"
    /\ UNCHANGED << value_cells, selected, cat_entries, entry_serum, entry_plate,
                    var_method, entry_multiplier, text_output >>

\* ----------------------------------------------------------- fetch_plate
\* the rows of wells JOIN plates WHERE plates.name = plate_name
fetch_plate(plate_name) ==
    SelectSeq(wells, LAMBDA w : plates[w.plate_id] = plate_name)

\* ------------------------------------------------------------- App.fetch
\* rc = self.well_to_rc(row['well']) of every row of df
CellsOfRows(df) == [ i \in 1 .. Len(df) |-> well_to_rc(df[i].well) ]

\* the positions in df of the rows about each cell; a row whose well is no
\* address is skipped by the loop
RowIndexes(cellOf) == [ rc \in Grid |-> { i \in DOMAIN cellOf : cellOf[i] = rc } ]

LastIndex(I) == CHOOSE i \in I : \A j \in I : j <= i

\* what the loop over df.iterrows() leaves for a cell in a text column: the
\* value of the last of the cell's rows where it is truthy, '' without one
RECURSIVE LastTruthy(_, _, _)
LastTruthy(df, I, column) ==
    IF I = {} THEN ""
    ELSE IF df[LastIndex(I)][column] \notin { "", Null } THEN df[LastIndex(I)][column]
    ELSE LastTruthy(df, I \ { LastIndex(I) }, column)

LastOfColumn(df, idx, column) == [ rc \in Grid |-> LastTruthy(df, idx[rc], column) ]

\* the text of an emptied value entry after the loop: each of the cell's
\* rows inserts str(row['value']) at position 0 unless the value is None.
\* A NULL is None only when the whole column is NULL (an object column);
\* next to a number the column is float64 and the NULL is NaN, which is
\* inserted.
RECURSIVE InsertedText(_, _, _)
InsertedText(df, I, anyNumber) ==
    IF I = {} THEN ""
    ELSE IF anyNumber \/ IsNum(df[LastIndex(I)].value)
    THEN StrOfFloat(df[LastIndex(I)].value) \o InsertedText(df, I \ { LastIndex(I) }, anyNumber)
    ELSE InsertedText(df, I \ { LastIndex(I) }, anyNumber)

\* the value entries after fetch: emptied, then filled from the rows of df
FetchedValues(df, idx, anyNumber) ==
    [ rc \in Grid |-> InsertedText(df, idx[rc], anyNumber) ]

\* self.categories after fetch: emptied, then the keys the loop has set
FetchedCategories(last) == [ rc \in { x \in Grid : last[x] # "" } |-> last[rc] ]

\* self.serums after fetch: what it held, overwritten by what the loop set
FetchedSerums(sers, last) ==
    [ rc \in (DOMAIN sers) \cup { x \in Grid : last[x] # "" } |->
        IF last[rc] # "" THEN last[rc] ELSE sers[rc] ]

\* df.to_string(index=False), inserted twice
ShownFetched(df) ==
    LET shown == [ i \in 1 .. Len(df) |->
                     [ well |-> df[i].well,
                       value |-> df[i].value,
                       category |-> df[i].category,
                       serum |-> df[i].serum,
                       normalized |-> df[i].normalized,
                       result |-> df[i].result ] ]
    IN  shown \o shown

NoDataFound == << [ well |-> "No data found" ] >>

fetch ==
    /\ Count("fetch")
    /\ IF entry_plate = ""
       THEN /\ message' = "Plate"
            /\ UNCHANGED << value_cells, categories, serums, text_output, last_assigned >>
       ELSE \E df \in { fetch_plate(entry_plate) } :
            /\ message' = ""
            /\ last_assigned' = EmptyDict
            /\ IF Len(df) = 0
               THEN /\ categories' = EmptyDict
                    /\ value_cells' = [ rc \in Grid |-> "" ]
                    /\ text_output' = NoDataFound
                    /\ UNCHANGED serums
               ELSE \E anyNumber \in { \E i \in 1 .. Len(df) : IsNum(df[i].value) } :
                    \E cellOf \in { CellsOfRows(df) } :
                    \E idx \in { RowIndexes(cellOf) } :
                    \E cats \in { LastOfColumn(df, idx, "category") } :
                    \E sers \in { LastOfColumn(df, idx, "serum") } :
                        /\ categories' = FetchedCategories(cats)
                        /\ serums' = FetchedSerums(serums, sers)
                        /\ value_cells' = FetchedValues(df, idx, anyNumber)
                        /\ text_output' = ShownFetched(df)
    /\ UNCHANGED << selected, cat_entries, entry_serum, entry_plate, var_method,
                    entry_multiplier, plates, wells >>

\* ----------------------------------------------------- calculate_results
\* df['value'] as a sequence
ColumnValue(df) == [ i \in 1 .. Len(df) |-> df[i].value ]

\* the blank taken over every well with a value, whatever its category
BlankOfEveryWell(df) ==
    LET vals == DropNa(ColumnValue(df))
    IN  IF Len(vals) = 0 THEN Whole(0) ELSE Mean(vals)

\* blank_vals.mean() if not blank_vals.empty else 0.0
BlankOf(df) ==
    LET blank_vals == DropNa(ColumnValue(
                          SelectSeq(df, LAMBDA w : w.category = "substrate blank")))
    IN  IF Len(blank_vals) = 0 THEN Whole(0) ELSE Mean(blank_vals)

\* df['normalized'] = df['value'] - blank
Normalized(df) ==
    LET blank == BlankOf(df)
    IN  [ i \in 1 .. Len(df) |->
            [ well |-> df[i].well,
              value |-> df[i].value,
              category |-> df[i].category,
              serum |-> df[i].serum,
              normalized |-> RatSub(df[i].value, blank) ] ]

\* the control population taken without looking at the category
HealthyOfEveryWell(df) == DropNa([ i \in 1 .. Len(df) |-> df[i].normalized ])

\* df[df['category'] == 'K- healthy']['normalized'].dropna()
HealthyOf(df) ==
    LET h == SelectSeq(df, LAMBDA w : w.category = "K- healthy")
    IN  DropNa([ i \in 1 .. Len(h) |-> h[i].normalized ])

\* float(self.entry_multiplier.get()), 1.0 on ValueError
MultiplierOf(text) == IF IsNum(ParseFloat(text)) THEN ParseFloat(text) ELSE Whole(1)

\* the threshold is base + k * sqrt(var): mean_h + mult * healthy.std() for
\* 'SD' and mean_h * mult otherwise.  healthy.std() of a single value is NaN.
ThresholdOf(healthy, method, mult) ==
    IF method = "SD"
    THEN [ base |-> Mean(healthy), k |-> mult, var |-> SampleVariance(healthy) ]
    ELSE [ base |-> RatMul(Mean(healthy), mult), k |-> Whole(0), var |-> Whole(0) ]

\* x >= threshold in place of x > threshold
AtOrAboveThreshold(x, th) ==
    /\ IsNum(x) /\ IsNum(th.base) /\ IsNum(th.k) /\ IsNum(th.var)
    /\ ~ RatGT(th.base, x)
    /\ ~ RatGT(RatMul(RatMul(th.k, th.k), th.var),
               RatMul(RatSub(x, th.base), RatSub(x, th.base)))

\* x > threshold, for k >= 0; False when x or the threshold is NaN
AboveThreshold(x, th) ==
    /\ IsNum(x) /\ IsNum(th.base) /\ IsNum(th.k) /\ IsNum(th.var)
    /\ RatGT(x, th.base)
    /\ RatGT(RatMul(RatSub(x, th.base), RatSub(x, th.base)),
             RatMul(RatMul(th.k, th.k), th.var))

\* lambda x: 'positive' if x > threshold else 'negative'
Classify(x, th) == IF AboveThreshold(x, th) THEN "positive" ELSE "negative"

\* df['result'] = df['normalized'].apply(...)
Classified(df, th) ==
    [ i \in 1 .. Len(df) |->
        [ well |-> df[i].well,
          value |-> df[i].value,
          category |-> df[i].category,
          serum |-> df[i].serum,
          normalized |-> df[i].normalized,
          result |-> Classify(df[i].normalized, th) ] ]

\* SELECT id FROM plates WHERE name=? ... fetchone(): the row with the
\* smallest id (sqlite scans the table in rowid order), 0 when there is none
FirstPlateId(name) ==
    IF \E p \in 1 .. Len(plates) : plates[p] = name
    THEN CHOOSE p \in 1 .. Len(plates) :
            /\ plates[p] = name
            /\ \A q \in 1 .. p - 1 : plates[q] # name
    ELSE 0

\* UPDATE wells SET serum=?, category=?, normalized=?, result=?
\*   WHERE plate_id=? AND well=?     for every row of df; the wells of df are
\* distinct, so a stored row is written by at most one row of df
UpdatedWells(pid, df) ==
    LET rowOf == [ w \in { df[j].well : j \in 1 .. Len(df) } |->
                     CHOOSE j \in 1 .. Len(df) : df[j].well = w ]
    IN  [ i \in 1 .. Len(wells) |->
            IF wells[i].plate_id = pid /\ wells[i].well \in DOMAIN rowOf
            THEN LET r == df[rowOf[wells[i].well]]
                 IN  [ wells[i] EXCEPT !.serum = r.serum,
                                       !.category = r.category,
                                       !.normalized = r.normalized,
                                       !.result = r.result ]
            ELSE wells[i] ]

\* df[["well", "sample", "serum", "normalized", "result"]]
Shown(df) ==
    [ i \in 1 .. Len(df) |->
        [ well |-> df[i].well,
          serum |-> df[i].serum,
          normalized |-> df[i].normalized,
          result |-> df[i].result ] ]

\* each intermediate value of the handler is bound once, as the local
\* variables of the code are
calculate_results ==
    /\ Step("calculate_results")
    /\ categories' = EntriesCategories(1, categories)
    /\ serums' = EntriesSerums(serums)
    /\ \E df \in { CollectRows(categories', serums') } :
       \E norm \in { Normalized(df) } :
       \E healthy \in { HealthyOf(norm) } :
       \E th \in { ThresholdOf(healthy, var_method, MultiplierOf(entry_multiplier)) } :
       \E res \in { Classified(norm, th) } :
       \E pid \in { FirstPlateId(entry_plate) } :
           IF Len(DropNa(ColumnValue(df))) = 0
           THEN /\ message' = "Data"
                /\ UNCHANGED << plates, wells, text_output >>
           ELSE IF Len(healthy) = 0
           THEN /\ message' = "Controls"
                /\ UNCHANGED << plates, wells, text_output >>
           ELSE /\ message' = ""
                /\ wells' = IF pid # 0 THEN UpdatedWells(pid, res) ELSE wells
                /\ text_output' = Shown(res)
                /\ UNCHANGED plates
    /\ UNCHANGED << value_cells, selected, cat_entries, entry_serum, entry_plate,
                    var_method, entry_multiplier >>

\* ------------------------------------------------------------ the form
Next ==
    \/ \E rc \in EditWells, text \in ValueTexts : EditValue(rc, text)
    \/ \E cat \in Cats, text \in EntryTexts : SetCatEntry(cat, text)
    \/ \E text \in SerumTexts : SetSerum(text)
    \/ \E text \in PlateNames : SetPlate(text)
    \/ \E m \in Methods : SetMethod(m)
    \/ \E text \in MultTexts : SetMultiplier(text)
    \/ \E rc \in EditWells : toggle_select(rc)
    \/ \E cat \in Cats : assign_selected(cat)
    \/ clear_selection
    \/ save
    \/ fetch
    \/ calculate_results

Spec == Init /\ [][Next]_vars

\* ------------------------------------- calculate_results on a filled form
\* The form after the user has typed values into the first MaxWells cells,
\* given them categories by selection, and chosen a method and a multiplier,
\* with one invocation left.
NumberTexts == { DecimalTexts[i + 1] : i \in 0 .. MaxValue }

FilledValues(v) == [ rc \in Grid |-> IF rc \in EditWells THEN v[rc] ELSE "" ]

FilledCategories(c) == [ rc \in { x \in EditWells : c[x] # "" } |-> c[rc] ]

InitCalc ==
    /\ \E v \in [ EditWells -> NumberTexts \cup { "" } ] : value_cells = FilledValues(v)
    /\ \E c \in [ EditWells -> Cats \cup { "" } ] : categories = FilledCategories(c)
    /\ var_method \in Methods
    /\ entry_multiplier \in MultTexts
    /\ serums = EmptyDict
    /\ selected = {}
    /\ cat_entries = [ cat \in Cats |-> << >> ]
    /\ entry_serum = ""
    /\ entry_plate = ""
    /\ text_output = << >>
    /\ plates = << >>
    /\ wells = << >>
    /\ message = ""
    /\ lastOp = "__init__"
    /\ nops = MaxOps - 1
    /\ last_assigned = EmptyDict
    /\ well_arg = << >>
    /\ well_rc = NotCalled

SpecCalc == InitCalc /\ [][calculate_results]_vars

\* ------------------------------------------- well_to_rc called directly
ParseAlphabet == { "A", "H", "I", "a", "h", "0", "1", "2", "3", "9", "\n", "U+0661" }

RECURSIVE StringsUpTo(_)
StringsUpTo(n) ==
    IF n = 0 THEN { << >> }
    ELSE LET shorter == StringsUpTo(n - 1)
         IN  shorter \cup { Append(s, ch) : s \in shorter, ch \in ParseAlphabet }

InitParse ==
    /\ InitForm
    /\ plates = << >>
    /\ wells = << >>
    /\ message = ""
    /\ lastOp = "__init__"
    /\ nops = 0
    /\ last_assigned = EmptyDict
    /\ well_arg \in StringsUpTo(MaxLen)
    /\ well_rc = NotCalled

call_well_to_rc ==
    /\ well_rc = NotCalled
    /\ well_rc' = well_to_rc(well_arg)
    /\ UNCHANGED << formVars, dbVars, text_output, message, lastOp, nops, last_assigned,
                    well_arg >>

SpecParse == InitParse /\ [][call_well_to_rc]_vars

\* ------------------------------- saving and calculating on a filled form
\* The form after the user has typed the plate name and values into the
\* first MaxWells cells and made each a healthy control or a blank by
\* selection; from there the user edits values, types A1 into a category
\* list, saves and calculates.
InitStore ==
    /\ \E v \in [ EditWells -> NumberTexts \cup { "" } ] : value_cells = FilledValues(v)
    /\ \E c \in [ EditWells -> { "K- healthy", "substrate blank" } ] :
          /\ categories = FilledCategories(c)
          /\ last_assigned = FilledCategories(c)
    /\ var_method = "SD"
    /\ entry_multiplier = "3"
    /\ serums = EmptyDict
    /\ selected = {}
    /\ cat_entries = [ cat \in Cats |-> << >> ]
    /\ entry_serum = ""
    /\ entry_plate = "P"
    /\ text_output = << >>
    /\ plates = << >>
    /\ wells = << >>
    /\ message = ""
    /\ lastOp = "__init__"
    /\ nops = 0
    /\ well_arg = << >>
    /\ well_rc = NotCalled

NextStore ==
    \/ \E rc \in EditWells, text \in ValueTexts : EditValue(rc, text)
    \/ \E cat \in Cats : SetCatEntry(cat, << "a", "1" >>)
    \/ save
    \/ calculate_results

SpecStore == InitStore /\ [][NextStore]_vars

\* ------------------------------ selecting, clearing and fetching on a form
\* The form after the user has typed the plate name and, through the serum
\* entry and the selection, given some of the first MaxWells cells a category
\* (and some of those a serum label); from there the user selects, assigns,
\* clears the selection, retypes the plate name, saves and fetches.
LabelCats == { "", "K+", "K- healthy" }

InitLabels ==
    /\ \E v \in [ EditWells -> { "", "1" } ] : value_cells = FilledValues(v)
    /\ \E c \in [ EditWells -> LabelCats ] :
          /\ categories = FilledCategories(c)
          /\ last_assigned = FilledCategories(c)
          /\ \E s \in [ EditWells -> SerumTexts ] :
                /\ \A rc \in EditWells : c[rc] = "" => s[rc] = ""
                /\ serums = FilledCategories(s)
    /\ var_method = "SD"
    /\ entry_multiplier = "3"
    /\ selected = {}
    /\ cat_entries = [ cat \in Cats |-> << >> ]
    /\ entry_serum = ""
    /\ entry_plate = "P"
    /\ text_output = << >>
    /\ plates = << >>
    /\ wells = << >>
    /\ message = ""
    /\ lastOp = "__init__"
    /\ nops = 0
    /\ well_arg = << >>
    /\ well_rc = NotCalled

NextLabels ==
    \/ \E rc \in EditWells : toggle_select(rc)
    \/ \E cat \in LabelCats \ { "" } : assign_selected(cat)
    \/ clear_selection
    \/ \E text \in PlateNames : SetPlate(text)
    \/ save
    \/ fetch

SpecLabels == InitLabels /\ [][NextLabels]_vars

\* ======================================================== the claims
\* what a claim reads off the form, in integers: the number a value text
\* denotes, sums over sets of cells, the multiplier the user typed
DecimalSet == { DecimalTexts[i] : i \in 1 .. 10 }

HasValue(rc) == value_cells[rc] \in DecimalSet

ValueCells == { rc \in Grid : HasValue(rc) }

ValueInt(rc) == (CHOOSE i \in 1 .. 10 : DecimalTexts[i] = value_cells[rc]) - 1

RECURSIVE SumValues(_)
SumValues(S) ==
    IF S = {} THEN 0
    ELSE LET rc == CHOOSE x \in S : TRUE IN ValueInt(rc) + SumValues(S \ { rc })

BlankCells == { rc \in DOMAIN categories : HasValue(rc) /\ categories[rc] = "substrate blank" }

HealthyCells == { rc \in DOMAIN categories : HasValue(rc) /\ categories[rc] = "K- healthy" }

\* blank = BlankSum / BlankDen
BlankSum == SumValues(BlankCells)

BlankDen == IF BlankCells = {} THEN 1 ELSE Cardinality(BlankCells)

\* normalized value of a cell with a value, times BlankDen
NormTimesDen(rc) == ValueInt(rc) * BlankDen - BlankSum

\* sum of the normalized values of the healthy controls, times BlankDen
HealthyNormSum == SumValues(HealthyCells) * BlankDen - BlankSum * Cardinality(HealthyCells)

MultiplierInt ==
    IF entry_multiplier \in DecimalSet
    THEN (CHOOSE i \in 1 .. 10 : DecimalTexts[i] = entry_multiplier) - 1
    ELSE 1

Calculated == lastOp = "calculate_results"

CalculatedOk == Calculated /\ message = ""

\* the row text_output shows for a cell
ShownRow(rc) == text_output[CellIndex(rc)]

\* C1: after a successful calculate_results, a well whose raw value is empty
\* or unparsable has no result: neither 'positive' nor 'negative'.
C1_NoValueNoResult ==
    CalculatedOk =>
        \A rc \in Grid \ ValueCells :
            ShownRow(rc).result \notin { "positive", "negative" }

\* C2: with method SD and exactly one 'K- healthy' well with a value,
\* calculate_results does not fail and the threshold is that control's
\* normalized value: every well strictly above the control is positive.
C2_SingleControlSD ==
    ( Calculated /\ var_method = "SD" /\ Cardinality(HealthyCells) = 1 ) =>
        /\ message = ""
        /\ \A rc \in ValueCells :
              ( \E h \in HealthyCells : ValueInt(rc) > ValueInt(h) )
                  => ShownRow(rc).result = "positive"

\* C3: with the Multiplier method and a non-empty control population the
\* calculation succeeds and a well with a value is positive exactly when its
\* normalized value is strictly greater than mean(control) * multiplier
\* (both sides multiplied by BlankDen * |control|).
C3_MultiplierThreshold ==
    ( Calculated /\ var_method = "Multiple" /\ HealthyCells # {} ) =>
        /\ message = ""
        /\ \A rc \in ValueCells :
              /\ ShownRow(rc).result \in { "positive", "negative" }
              /\ ShownRow(rc).result = "positive"
                   <=> NormTimesDen(rc) * Cardinality(HealthyCells)
                           > HealthyNormSum * MultiplierInt

\* a sample strictly above the threshold and one exactly at a non-zero
\* threshold, classified on a plate with a blank
C3_Witness ==
    /\ Calculated /\ var_method = "Multiple" /\ HealthyCells # {} /\ BlankCells # {}
    /\ HealthyNormSum * MultiplierInt # 0
    /\ \E rc \in ValueCells :
          /\ NormTimesDen(rc) * Cardinality(HealthyCells) = HealthyNormSum * MultiplierInt
          /\ ShownRow(rc).result = "negative"

C8_Letters == << "A", "B", "C", "D", "E", "F", "G", "H" >>

C8_LowerLetters == << "a", "b", "c", "d", "e", "f", "g", "h" >>

C8_Digits == << "0", "1", "2", "3", "4", "5", "6", "7", "8", "9" >>

C8_IsLetter(ch) == \E r \in 1 .. 8 : ch \in { C8_Letters[r], C8_LowerLetters[r] }

C8_Row(ch) == (CHOOSE r \in 1 .. 8 : ch \in { C8_Letters[r], C8_LowerLetters[r] }) - 1

C8_IsDigit(ch) == \E k \in 1 .. 10 : C8_Digits[k] = ch

C8_Digit(ch) == (CHOOSE k \in 1 .. 10 : C8_Digits[k] = ch) - 1

\* the number the one or two digits after the letter form
C8_Number(s) ==
    IF Len(s) = 2 THEN C8_Digit(s[2]) ELSE 10 * C8_Digit(s[2]) + C8_Digit(s[3])

C8_Valid(s) ==
    /\ Len(s) \in { 2, 3 }
    /\ C8_IsLetter(s[1])
    /\ \A i \in 2 .. Len(s) : C8_IsDigit(s[i])
    /\ C8_Number(s) \in 1 .. 12

C8_Expected(s) == IF C8_Valid(s) THEN << C8_Row(s[1]), C8_Number(s) - 1 >> ELSE NoRC

C8_WellToRcExact ==
    /\ well_rc # NotCalled => well_rc = C8_Expected(well_arg)
    /\ \A rc \in Grid : well_to_rc(FormatWell(rc)) = rc

\* the step just taken is a run of calculate_results
CalcStep == lastOp' = "calculate_results" /\ nops' = nops + 1

\* the stored rows of the plates that carry the name on the form
IsRowOfEnteredPlate(w) == plates[w.plate_id] = entry_plate

\* C4 (as claimed): after calculate_results found no 'K- healthy' well with a
\* normalized value, a failure is reported and result is absent in every
\* stored row of the plate.
C4_NoControlNoResult ==
    ( Calculated /\ HealthyCells = {} ) =>
        /\ message # ""
        /\ \A i \in 1 .. Len(wells) :
              IsRowOfEnteredPlate(wells[i]) => wells[i].result = Null

\* C4 (amended): a calculate_results that finds no 'K- healthy' well with a
\* normalized value reports 'Controls' (or 'Data' when no well has a value)
\* and writes nothing: the stored rows and the shown table are as before.
C4_FailureWritesNothing ==
    [][ ( CalcStep /\ HealthyCells' = {} ) =>
            /\ message' = IF ValueCells # {} THEN "Controls" ELSE "Data"
            /\ wells' = wells
            /\ plates' = plates
            /\ text_output' = text_output ]_vars

\* a failed calculation on a plate whose stored rows hold earlier results
C4_Witness ==
    /\ Calculated /\ HealthyCells = {} /\ message = "Controls"
    /\ \E i \in 1 .. Len(wells) :
          IsRowOfEnteredPlate(wells[i]) /\ wells[i].result # Null

\* C6: once save or calculate_results has applied the typed lists, every
\* well's category is the one of the user's latest assignment naming it,
\* whether typed into a list or made on the selection (stated for the wells
\* that at most one typed list names, where the latest assignment is plain).
C6_ListsNaming(rc) == { cat \in Cats : rc \in NamedCells(cat_entries[cat]) }

C6_LastAssignmentWins ==
    lastOp \in { "save", "calculate_results" } =>
        \A rc \in DOMAIN last_assigned :
            Cardinality(C6_ListsNaming(rc)) <= 1 => Get(categories, rc) = last_assigned[rc]

\* the stored columns category and serum
StoredLabels(ws) ==
    [ i \in 1 .. Len(ws) |-> << ws[i].category, ws[i].serum >> ]

C7_CellOfWell == [ w \in { FormatWell(rc) : rc \in Grid } |->
                    CHOOSE rc \in Grid : FormatWell(rc) = w ]

CellOfRow(w) == C7_CellOfWell[w.well]

\* the cells the typed lists name
C7_Typed ==
    { rc \in Grid : \E cat \in Cats : \E w \in parse_wells(cat_entries[cat]) :
        well_to_rc(w) = rc }

C9_FetchLatestOnly ==
    \A p \in 1 .. Len(plates) :
        LET rows == fetch_plate(plates[p])
            latest == CHOOSE q \in 1 .. Len(plates) :
                          /\ plates[q] = plates[p]
                          /\ \A r \in q + 1 .. Len(plates) : plates[r] # plates[p]
        IN  /\ Len(rows) <= NumRows * NumCols
            /\ \A i \in 1 .. Len(rows) : rows[i].plate_id = latest
            /\ \A i, j \in 1 .. Len(rows) : rows[i].well = rows[j].well => i = j

\* C10: in every stored plate, a row with a normalized value has
\* normalized = value - blank of the plate's stored 'substrate blank' rows,
\* and the results agree with a threshold derived (by one of the methods and
\* multipliers) from the plate's stored 'K- healthy' rows.
C10_RowsOfPlate(p) == SelectSeq(wells, LAMBDA w : w.plate_id = p)

C10_StoredDerivedRecomputable ==
    \A p \in 1 .. Len(plates) :
        LET rows == C10_RowsOfPlate(p)
            present == { i \in 1 .. Len(rows) : IsNum(rows[i].normalized) }
        IN  /\ \A i \in present :
                  rows[i].normalized = RatSub(rows[i].value, BlankOf(rows))
            /\ \E m \in Methods, k \in MultTexts :
                  \A i \in present :
                      rows[i].result =
                          Classify(rows[i].normalized,
                                   ThresholdOf(HealthyOf(rows), m, MultiplierOf(k)))

\* C11: after fetch of a plate name, the category and the serum label of
\* every well in memory are those of the stored rows of one plate with that
\* name, and all empty when no plate has the name: nothing assigned before
\* the fetch survives it.
C11_FetchReplacesLabels ==
    ( lastOp = "fetch" /\ entry_plate # "" ) =>
        IF \A p \in 1 .. Len(plates) : plates[p] # entry_plate
        THEN \A rc \in Grid : Get(categories, rc) = "" /\ Get(serums, rc) = ""
        ELSE \E p \in 1 .. Len(plates) :
                /\ plates[p] = entry_plate
                /\ \A i \in 1 .. Len(wells) :
                      wells[i].plate_id = p =>
                          /\ Get(categories, CellOfRow(wells[i])) = wells[i].category
                          /\ Get(serums, CellOfRow(wells[i])) = wells[i].serum

\* the step just taken is a run of clear_selection
ClearStep == lastOp' = "clear_selection" /\ nops' = nops + 1

\* C12 (as claimed): clear_selection changes only the selection: it leaves
\* the selected set empty and every well's category and serum label as they
\* were.
C12_ClearKeepsLabels ==
    [][ ClearStep =>
            /\ selected' = {}
            /\ \A rc \in Grid :
                  /\ Get(categories', rc) = Get(categories, rc)
                  /\ Get(serums', rc) = Get(serums, rc) ]_vars

\* C12 (amended): clear_selection leaves the selected set empty, removes the
\* serum label of every well that was selected, and changes no category and
\* no serum label of a well that was not selected.
C12_ClearDropsSelectedSerums ==
    [][ ClearStep =>
            /\ selected' = {}
            /\ \A rc \in Grid :
                  /\ Get(categories', rc) = Get(categories, rc)
                  /\ Get(serums', rc) = IF rc \in selected THEN "" ELSE Get(serums, rc) ]_vars

\* clear_selection has just removed a serum label that a saved plate still
\* records, from a well that keeps its category, next to a well that was not
\* selected and keeps its label
C12_Witness ==
    /\ lastOp = "clear_selection"
    /\ selected = {}
    /\ \E i \in 1 .. Len(wells) :
          /\ wells[i].serum # ""
          /\ Get(serums, CellOfRow(wells[i])) = ""
          /\ Get(categories, CellOfRow(wells[i])) = wells[i].category
    /\ \E rc \in DOMAIN categories : Get(serums, rc) # ""

====
